---- MODULE Spec2Model ----
(***************************************************************************)
(* Model of filter-cloudflare.py: the download of the two Cloudflare range *)
(* documents into the cache files (download_file), the construction of the *)
(* list of subnets from the cache files (get_cloudflare_subnets), the      *)
(* classification of one host (get_ip4, check_cloudflare, check_host) and  *)
(* the pool loop of main with its interrupt handling and exit status.      *)
(*                                                                         *)
(* Addresses are integers of a reduced width (W4 bits for IPv4, W6 bits    *)
(* for IPv6); a network is a base address and a prefix length.  A text     *)
(* line is a record [pad, txt]: txt is the text without its surrounding    *)
(* whitespace and pad tells whether the raw line has surrounding           *)
(* whitespace (every line read from a file ends with a newline).           *)
(***************************************************************************)
EXTENDS Integers, Sequences, FiniteSets, TLC

\* ------------------------------------------------------------ bounds ----
MaxHosts == 2        \* longest host list
MaxProc == 2         \* largest value of --proc
MaxRuns == 3         \* runs of the program over the same cache directory
MaxClock == 3        \* last clock tick
TicksPerSec == 2     \* resolution of st_mtime relative to an HTTP date
W4 == 4              \* modelled width of an IPv4 address
W6 == 5              \* modelled width of an IPv6 address
MaxBlocks == 2       \* longest list of subnets looked up on its own

\* --------------------------------------------------------- arithmetic ---
RECURSIVE Pow2(_)
Pow2(n) == IF n <= 0 THEN 1 ELSE 2 * Pow2(n - 1)

Min(a, b) == IF a <= b THEN a ELSE b

Families == {4, 6}
Width(fam) == IF fam = 4 THEN W4 ELSE W6

\* the text "base/plen" written in the notation of family fam
Cidr(fam, k, plen) ==
  [fam |-> fam, base |-> k * Pow2(Width(fam) - plen), plen |-> plen]
Blank == [fam |-> 0, base |-> 0, plen |-> 0]       \* the empty text
Line(txt) == [pad |-> TRUE, txt |-> txt]           \* txt followed by "\n"

\* ----------------------------------------------- the world of a run ----
BlockA == Cidr(4, 3, 2)          \* the block that holds a.example
BlockB == Cidr(4, 1, 3)
BlockC == Cidr(4, 1, 2)
Block6 == Cidr(6, 1, 1)
HostBits == [fam |-> 4, base |-> BlockA.base + 1, plen |-> 2]  \* host bits set

DocV4 == << Line(BlockB), Line(Blank), Line(BlockA) >>
DocV4New == << Line(BlockC), Line(BlockA) >>
DocV6 == << Line(Block6) >>
DocV6New == << Line(Block6), Line(Blank) >>
DocJunk4 == << Line(BlockA), Line(HostBits) >>
DocJunk6 == << Line(BlockA) >>                     \* an IPv4 block in ips-v6

\* the document each URL serves at first and the one published later
FirstDoc(fam) == IF fam = 4 THEN DocV4 ELSE DocV6
SecondDoc(fam) == IF fam = 4 THEN DocV4New ELSE DocV6New

\* socket.getaddrinfo: "gaierror", or the list of (family, address) records
AddrInfo(fam, addr) == [fam |-> fam, addr |-> addr]
HostNames == {"a.example", "b.example", "c.example", "d.example"}
getaddrinfo(host) ==
  CASE host = "a.example" ->
         [err |-> FALSE,
          res |-> << AddrInfo(6, Block6.base + 1), AddrInfo(4, BlockA.base + 1) >>]
    [] host = "b.example" ->
         [err |-> FALSE, res |-> << AddrInfo(4, 0) >>]
    [] host = "d.example" ->
         [err |-> FALSE, res |-> << AddrInfo(6, Block6.base + 1) >>]
    [] OTHER -> [err |-> TRUE, res |-> << >>]      \* c.example, "": gaierror

\* ------------------------------------------------------- text lines ----
\* str.strip: the text without its surrounding whitespace
strip(line) == [pad |-> FALSE, txt |-> line.txt]

\* truth value of a string: false for the empty string only
Truthy(line) == line.pad \/ line.txt # Blank

\* filter(None, map(str.strip, lines))
StrippedLines(lines) ==
  SelectSeq([i \in 1..Len(lines) |-> strip(lines[i])], Truthy)

\* ipaddress.IPv4Network(s) / IPv6Network(s), strict: s parses iff it is
\* written in the notation of the family, without surrounding whitespace,
\* with a prefix length within the width and no host bit set
IsNetwork(fam, s) ==
  /\ ~s.pad
  /\ s.txt.fam = fam
  /\ s.txt.plen \in 0..Width(fam)
  /\ s.txt.base \in 0..(Pow2(Width(fam)) - 1)
  /\ s.txt.base % Pow2(Width(fam) - s.txt.plen) = 0
ip_net(fam, s) == [fam |-> fam, base |-> s.txt.base, plen |-> s.txt.plen]

\* ------------------------------------------------------ cache files ----
NoFile == [exists |-> FALSE, body |-> << >>, mtime |-> 0]
File(body, mtime) == [exists |-> TRUE, body |-> body, mtime |-> mtime]

\* get_cloudflare_subnets without its memo: the subnets of both cache
\* files, ips-v4 first, or the first exception in reading order
FileError_skip(fs, fam) ==
  IF ~fs[fam].exists THEN "FileNotFoundError" ELSE ""
FileError(fs, fam) ==
  IF ~fs[fam].exists THEN "FileNotFoundError"
  ELSE IF \E i \in 1..Len(StrippedLines(fs[fam].body)) :
            ~IsNetwork(fam, StrippedLines(fs[fam].body)[i])
       THEN "ValueError"
       ELSE ""
FileNets(fs, fam) ==
  LET ls == StrippedLines(fs[fam].body)
  IN  [i \in 1..Len(ls) |-> ip_net(fam, ls[i])]
get_cloudflare_subnets(fs) ==
  IF FileError(fs, 4) # "" THEN [exc |-> FileError(fs, 4), rv |-> << >>]
  ELSE IF FileError(fs, 6) # "" THEN [exc |-> FileError(fs, 6), rv |-> << >>]
  ELSE [exc |-> "", rv |-> FileNets(fs, 4) \o FileNets(fs, 6)]

\* ---------------------------------------------------- classification ---
\* get_ip4: the address of the first AF_INET entry of getaddrinfo
IsInet(x) == x.fam = 4
get_ip4(host) ==
  LET info == getaddrinfo(host)
      inet == SelectSeq(info.res, IsInet)
  IN  IF info.err THEN [exc |-> "gaierror", ip |-> 0]
      ELSE IF inet = << >> THEN [exc |-> "StopIteration", ip |-> 0]
      ELSE [exc |-> "", ip |-> inet[1].addr]

\* ip in subnet, for an IPv4Address ip: false across families, otherwise
\* the address with its host bits masked equals the network address
Contains_anyfam(subnet, ip) ==
  (ip \div Pow2(W4 - subnet.plen)) * Pow2(W4 - subnet.plen) = subnet.base
Contains(subnet, ip) ==
  /\ subnet.fam = 4
  /\ (ip \div Pow2(W4 - subnet.plen)) * Pow2(W4 - subnet.plen) = subnet.base

\* lines 145-155: the loop over the subnets, True at the first match
InSubnets(subnets, ip) == \E i \in 1..Len(subnets) : Contains(subnets[i], ip)

\* the memo of lru_cache in one process: not yet built, or the value built
NoMemo == [built |-> FALSE, rv |-> << >>]

\* check_cloudflare(host) in a process whose memo is m, the cache files
\* being fs: the exception or the return value, the memo afterwards, and
\* whether the body of get_cloudflare_subnets was executed (read)
check_cloudflare_nomemo(host, m, fs) ==
  LET a == get_ip4(host)
      s == get_cloudflare_subnets(fs)
  IN  IF a.exc # "" THEN [exc |-> a.exc, ret |-> FALSE, memo |-> m,
                          read |-> FALSE]
      ELSE IF s.exc # "" THEN [exc |-> s.exc, ret |-> FALSE, memo |-> m,
                               read |-> TRUE]
      ELSE [exc |-> "",
            ret |-> InSubnets(s.rv, a.ip),
            memo |-> [built |-> TRUE, rv |-> s.rv],
            read |-> TRUE]
check_cloudflare(host, m, fs) ==
  LET a == get_ip4(host)
      s == IF m.built THEN [exc |-> "", rv |-> m.rv]
           ELSE get_cloudflare_subnets(fs)
  IN  IF a.exc # "" THEN [exc |-> a.exc, ret |-> FALSE, memo |-> m,
                          read |-> FALSE]
      ELSE IF s.exc # "" THEN [exc |-> s.exc, ret |-> FALSE, memo |-> m,
                               read |-> TRUE]
      ELSE [exc |-> "",
            ret |-> InSubnets(s.rv, a.ip),
            memo |-> [built |-> TRUE, rv |-> s.rv],
            read |-> ~m.built]

\* check_host(host): the item the worker sends back to main.  exc = "" is
\* the returned pair (host, checked); diag is the line written to stderr
check_host(host, m, fs) ==
  LET c == check_cloudflare(host, m, fs)
  IN  IF c.exc = "gaierror"
        THEN [host |-> host, exc |-> "", checked |-> FALSE,
              diag |-> "host ip address not found", memo |-> c.memo,
              read |-> c.read]
      ELSE IF c.exc # ""
        THEN [host |-> host, exc |-> c.exc, checked |-> FALSE,
              diag |-> "", memo |-> c.memo, read |-> c.read]
      ELSE IF ~c.ret
        THEN [host |-> host, exc |-> "", checked |-> TRUE,
              diag |-> "", memo |-> c.memo, read |-> c.read]
      ELSE [host |-> host, exc |-> "", checked |-> FALSE,
            diag |-> "detected cloudflare", memo |-> c.memo,
            read |-> c.read]

\* the verdict of the specification for a returned item
Verdict(item) ==
  IF item.exc # "" THEN "Error"
  ELSE IF item.checked THEN "NotFronted"
  ELSE IF item.diag = "detected cloudflare" THEN "Fronted"
  ELSE "Unresolved"

\* ------------------------------------------------------------ state ----
VARIABLES
  args,        \* parsed options: proc, force (-F), skip (-S)
  hosts,       \* the list hosts of main
  files,       \* the two cache files, by family
  remote,      \* the document each URL serves and its Last-Modified (s)
  now,         \* the clock, in ticks
  pc,          \* position of main
  todo,        \* families the download loop of main has still to fetch
  dl,          \* the download_file call in progress
  pre,         \* each cache file as it was when its download_file began
  ret,         \* how the download_file call of each family ended
  fresh,       \* the file is a completed download of the current document
  worker,      \* the pool's worker processes
  nextTask,    \* index in hosts of the next task of imap_unordered
  outq,        \* items sent back by the workers, oldest first
  consumed,    \* items main has taken from the iterator
  stdout,      \* hosts printed on standard output
  notice,      \* the closing notice written to stderr
  error,       \* the exception that propagated out of main
  exitStatus,  \* exit status of the process, -1 while it runs
  run,         \* number of the current run
  probe        \* a lookup of one address in one list of subnets

vars == << args, hosts, files, remote, now, pc, todo, dl, pre, ret, fresh,
           worker, nextTask, outq, consumed, stdout, notice, error,
           exitStatus, run, probe >>

fetchVars == << files, remote, now, todo, dl, pre, ret, fresh >>
poolVars == << worker, nextTask, outq, consumed, stdout >>

\* hosts = args.hosts.copy(); extended by the stripped lines of args.list
\* unless the list is a terminal
ReadHosts(argHosts, isatty, list) ==
  IF isatty THEN argHosts
  ELSE argHosts \o [i \in 1..Len(list) |-> strip(list[i]).txt]

SeqsUpTo(S, n) == UNION {[1..k -> S] : k \in 0..n}

HostLines == {[pad |-> TRUE, txt |-> h] : h \in HostNames \cup {""}}

\* the lists of hosts main can hold after reading its arguments
HostLists ==
  {ReadHosts(<< >>, FALSE, l) : l \in SeqsUpTo(HostLines, MaxHosts)}
    \cup {ReadHosts(<< h >>, t, l) :
            h \in {"b.example"}, t \in BOOLEAN,
            l \in SeqsUpTo(HostLines, Min(1, MaxHosts - 1))}

\* formatdate(t, usegmt=True): the HTTP date of t, in whole seconds
formatdate_local(t) == IF t >= TicksPerSec THEN t \div TicksPerSec - 1 ELSE 0
formatdate(t) == t \div TicksPerSec

\* the Last-Modified date the server gives a document published at t
LastModified(t) == t \div TicksPerSec

NoHeader == -1
Idle == [stage |-> "idle", fam |-> 0, ims |-> NoHeader, src |-> << >>,
         pos |-> 0, stale |-> FALSE]
Recent == 2 * TicksPerSec

\* states of the cache directory a run can find: nothing, empty files,
\* complete documents, a malformed document in either place, one file only
EmptyV4 == File(<< >>, 0)
EmptyV6 == File(<< Line(Blank) >>, 0)
CacheDirs ==
  { << NoFile, NoFile >>,
    << EmptyV4, EmptyV6 >>,
    << File(DocV4, Recent), File(DocV6, Recent) >>,
    << File(DocJunk4, Recent), File(DocV6, Recent) >>,
    << File(DocV4, Recent), File(DocJunk6, Recent) >>,
    << File(DocV4, Recent), NoFile >> }

\* -F and -S as given on the command line (-S makes -F irrelevant)
Options == { [force |-> FALSE, skip |-> FALSE],
             [force |-> TRUE, skip |-> FALSE],
             [force |-> FALSE, skip |-> TRUE] }

NoProbe == [subnets |-> << >>, ip |-> 0, done |-> FALSE,
            ret |-> FALSE, retReversed |-> FALSE, retDropped |-> << >>]

RunStart ==
  /\ pc = "fetch"
  /\ probe = NoProbe
  /\ todo = << 4, 6 >>
  /\ dl = Idle
  /\ pre = [f \in Families |-> NoFile]
  /\ ret = [f \in Families |-> "none"]
  /\ worker = << >>
  /\ nextTask = 1
  /\ outq = << >>
  /\ consumed = << >>
  /\ stdout = << >>
  /\ notice = "none"
  /\ error = ""
  /\ exitStatus = -1

\* one run over a cache directory in any of its states
Init ==
  /\ args \in {[proc |-> p, force |-> o.force, skip |-> o.skip] :
                 p \in 1..MaxProc, o \in Options}
  /\ hosts \in HostLists
  /\ files \in {[f \in Families |-> IF f = 4 THEN c[1] ELSE c[2]] :
                  c \in CacheDirs}
  /\ remote = [f \in Families |->
                 [body |-> FirstDoc(f), lm |-> 1]]
  /\ now = Recent
  /\ fresh = [f \in Families |-> FALSE]
  /\ run = 1
  /\ RunStart

\* --------------------------------------------------- download_file ----
\* lines 168-179: the headers and the request.  If-Modified-Since is sent
\* iff not force and the local file exists
DownloadCall_noforce ==
  /\ pc = "fetch" /\ ~args.skip /\ todo # << >> /\ dl.stage = "idle"
  /\ LET f == Head(todo)
     IN  /\ dl' = [stage |-> "sent", fam |-> f,
                   ims |-> IF files[f].exists
                             THEN formatdate(files[f].mtime) ELSE NoHeader,
                   src |-> << >>, pos |-> 0, stale |-> FALSE]
         /\ pre' = [pre EXCEPT ![f] = files[f]]
  /\ UNCHANGED << probe, args, hosts, files, remote, now, pc, todo, ret, fresh,
                  poolVars, notice, error, exitStatus, run >>
DownloadCall ==
  /\ pc = "fetch" /\ ~args.skip /\ todo # << >> /\ dl.stage = "idle"
  /\ LET f == Head(todo)
     IN  /\ dl' = [stage |-> "sent", fam |-> f,
                   ims |-> IF ~args.force /\ files[f].exists
                             THEN formatdate(files[f].mtime) ELSE NoHeader,
                   src |-> << >>, pos |-> 0, stale |-> FALSE]
         /\ pre' = [pre EXCEPT ![f] = files[f]]
  /\ UNCHANGED << probe, args, hosts, files, remote, now, pc, todo, ret, fresh,
                  poolVars, notice, error, exitStatus, run >>

\* the server answers 200 to an unconditional request and to a conditional
\* one whose date is older than Last-Modified; lines 181-183 create the
\* directory and open the file with "wb+", which truncates it
Respond200 ==
  /\ pc = "fetch" /\ dl.stage = "sent"
  /\ dl.ims = NoHeader \/ remote[dl.fam].lm > dl.ims
  /\ files' = [files EXCEPT ![dl.fam] = File(<< >>, now)]
  /\ dl' = [dl EXCEPT !.stage = "body", !.src = remote[dl.fam].body]
  /\ fresh' = [fresh EXCEPT ![dl.fam] = FALSE]
  /\ UNCHANGED << probe, args, hosts, remote, now, pc, todo, pre, ret,
                  poolVars, notice, error, exitStatus, run >>

\* line 184: shutil.copyfileobj copies the next piece of the body
CopyChunk ==
  /\ pc = "fetch" /\ dl.stage = "body" /\ dl.pos < Len(dl.src)
  /\ files' = [files EXCEPT ![dl.fam] =
                 File(files[dl.fam].body \o << dl.src[dl.pos + 1] >>, now)]
  /\ dl' = [dl EXCEPT !.pos = dl.pos + 1]
  /\ UNCHANGED << probe, args, hosts, remote, now, pc, todo, pre, ret, fresh,
                  poolVars, notice, error, exitStatus, run >>

\* lines 184-186: the body is exhausted, the file is closed, return True
DownloadReturn ==
  /\ pc = "fetch" /\ dl.stage = "body" /\ dl.pos = Len(dl.src)
  /\ ret' = [ret EXCEPT ![dl.fam] = "Updated"]
  /\ fresh' = [fresh EXCEPT ![dl.fam] = ~dl.stale]
  /\ todo' = Tail(todo)
  /\ dl' = Idle
  /\ UNCHANGED << probe, args, hosts, files, remote, now, pc, pre,
                  poolVars, notice, error, exitStatus, run >>

\* line 184: reading the body fails (connection reset, incomplete read).
\* The exception is no URLError: it leaves download_file and main
TransferError ==
  /\ pc = "fetch" /\ dl.stage = "body" /\ dl.pos < Len(dl.src)
  /\ ret' = [ret EXCEPT ![dl.fam] = "Raised"]
  /\ dl' = Idle
  /\ pc' = "crashed"
  /\ error' = "OSError"
  /\ UNCHANGED << probe, args, hosts, files, remote, now, todo, pre, fresh,
                  poolVars, notice, exitStatus, run >>

\* lines 187-194: HTTPError 304, sent for a conditional request whose date
\* is not older than Last-Modified; return False
Respond304 ==
  /\ pc = "fetch" /\ dl.stage = "sent"
  /\ dl.ims # NoHeader /\ remote[dl.fam].lm <= dl.ims
  /\ ret' = [ret EXCEPT ![dl.fam] = "NotModified"]
  /\ todo' = Tail(todo)
  /\ dl' = Idle
  /\ UNCHANGED << probe, args, hosts, files, remote, now, pc, pre, fresh,
                  poolVars, notice, error, exitStatus, run >>

\* lines 187-197: HTTPError with another status (403, 404, 5xx); return False
RespondHTTPError ==
  /\ pc = "fetch" /\ dl.stage = "sent"
  /\ ret' = [ret EXCEPT ![dl.fam] = "Failed"]
  /\ todo' = Tail(todo)
  /\ dl' = Idle
  /\ UNCHANGED << probe, args, hosts, files, remote, now, pc, pre, fresh,
                  poolVars, notice, error, exitStatus, run >>

\* lines 187-189: URLError that is no HTTPError (no connection, no DNS):
\* it has no attribute code, err.code raises AttributeError in the handler
ConnectError ==
  /\ pc = "fetch" /\ dl.stage = "sent"
  /\ ret' = [ret EXCEPT ![dl.fam] = "Raised"]
  /\ dl' = Idle
  /\ pc' = "crashed"
  /\ error' = "AttributeError"
  /\ UNCHANGED << probe, args, hosts, files, remote, now, todo, pre, fresh,
                  poolVars, notice, exitStatus, run >>
\* ------------------------------------------------------------- pool ----
\* reads counts the executions of the body of get_cloudflare_subnets in
\* the worker, builds those that returned the list
IdleWorker == [st |-> "idle", task |-> 0, memo |-> NoMemo, reads |-> 0,
               builds |-> 0]

\* lines 99-110: proc_num and multiprocessing.Pool(proc_num), which raises
\* ValueError for a number of processes below 1
proc_num_configured == args.proc
proc_num == Min(args.proc, Len(hosts))
StartPool_early ==
  /\ pc = "fetch" /\ dl.stage = "idle"
  /\ IF proc_num < 1
       THEN /\ pc' = "crashed"
            /\ error' = "ValueError"
            /\ UNCHANGED worker
       ELSE /\ pc' = "drain"
            /\ worker' = [w \in 1..proc_num |-> IdleWorker]
            /\ UNCHANGED error
  /\ UNCHANGED << probe, args, hosts, fetchVars, nextTask, outq, consumed, stdout,
                  notice, exitStatus, run >>
StartPool ==
  /\ pc = "fetch" /\ dl.stage = "idle" /\ (args.skip \/ todo = << >>)
  /\ IF proc_num < 1
       THEN /\ pc' = "crashed"
            /\ error' = "ValueError"
            /\ UNCHANGED worker
       ELSE /\ pc' = "drain"
            /\ worker' = [w \in 1..proc_num |-> IdleWorker]
            /\ UNCHANGED error
  /\ UNCHANGED << probe, args, hosts, fetchVars, nextTask, outq, consumed, stdout,
                  notice, exitStatus, run >>

PoolAlive == pc \in {"drain", "finished", "interrupted", "crashed"}

\* an idle worker takes the next task of imap_unordered (chunksize 1)
WorkerTake(w) ==
  /\ PoolAlive /\ w \in DOMAIN worker
  /\ worker[w].st = "idle" /\ nextTask <= Len(hosts)
  /\ worker' = [worker EXCEPT ![w].st = "busy", ![w].task = nextTask]
  /\ nextTask' = nextTask + 1
  /\ UNCHANGED << probe, args, hosts, fetchVars, pc, outq, consumed, stdout,
                  notice, error, exitStatus, run >>

\* the worker runs check_host on its task and sends the returned pair, or
\* the exception check_host raised, back to main
WorkerRun(w) ==
  /\ PoolAlive /\ w \in DOMAIN worker
  /\ worker[w].st = "busy"
  /\ LET r == check_host(hosts[worker[w].task], worker[w].memo, files)
     IN  /\ outq' = Append(outq, [host |-> r.host, exc |-> r.exc,
                                  checked |-> r.checked, diag |-> r.diag])
         /\ worker' = [worker EXCEPT
              ![w].st = "idle",
              ![w].memo = r.memo,
              ![w].reads = IF r.read THEN @ + 1 ELSE @,
              ![w].builds = IF r.read /\ r.exc = "" THEN @ + 1 ELSE @]
  /\ UNCHANGED << probe, args, hosts, fetchVars, pc, nextTask, consumed, stdout,
                  notice, error, exitStatus, run >>

\* lines 112-116: main takes the next item of the iterator.  A returned
\* pair is printed or skipped; an exception is raised again in main, and a
\* StopIteration raised by the iterator's __next__ ends the for loop
MainNext ==
  /\ pc = "drain" /\ outq # << >>
  /\ LET item == Head(outq)
     IN  /\ consumed' = Append(consumed, item)
         /\ outq' = Tail(outq)
         /\ stdout' = IF item.exc = "" /\ item.checked
                        THEN Append(stdout, item.host) ELSE stdout
         /\ pc' = IF item.exc = "" THEN "drain"
                  ELSE IF item.exc = "StopIteration" THEN "finished"
                  ELSE "crashed"
         /\ notice' = IF item.exc = "StopIteration" THEN "Finished" ELSE notice
         /\ error' = IF item.exc \notin {"", "StopIteration"}
                       THEN item.exc ELSE error
  /\ UNCHANGED << probe, args, hosts, fetchVars, worker, nextTask, exitStatus, run >>

\* lines 112, 117: every task has yielded its item, the loop ends
MainFinish ==
  /\ pc = "drain" /\ Len(consumed) = Len(hosts)
  /\ pc' = "finished"
  /\ notice' = "Finished"
  /\ UNCHANGED << probe, args, hosts, fetchVars, poolVars, error, exitStatus, run >>

\* lines 118-119: KeyboardInterrupt inside the try block
Interrupt ==
  /\ pc = "drain"
  /\ pc' = "interrupted"
  /\ notice' = "Interrupted"
  /\ UNCHANGED << probe, args, hosts, fetchVars, poolVars, error, exitStatus, run >>

\* line 110 (Pool.__exit__ terminates the workers) and lines 200-201:
\* main returns None, sys.exit(None) is status 0; an exception that left
\* main is status 1
Exit_hang ==
  /\ pc \in {"finished", "crashed"}
  /\ worker' = [w \in DOMAIN worker |-> [worker[w] EXCEPT !.st = "dead"]]
  /\ exitStatus' = IF pc = "crashed" THEN 1 ELSE 0
  /\ pc' = "exited"
  /\ UNCHANGED << probe, args, hosts, fetchVars, nextTask, outq, consumed, stdout,
                  notice, error, run >>
Exit ==
  /\ pc \in {"finished", "interrupted", "crashed"}
  /\ worker' = [w \in DOMAIN worker |-> [worker[w] EXCEPT !.st = "dead"]]
  /\ exitStatus' = IF pc = "crashed" THEN 1 ELSE 0
  /\ pc' = "exited"
  /\ UNCHANGED << probe, args, hosts, fetchVars, nextTask, outq, consumed, stdout,
                  notice, error, run >>

Next ==
  \/ DownloadCall
  \/ Respond200
  \/ CopyChunk
  \/ DownloadReturn
  \/ TransferError
  \/ Respond304
  \/ RespondHTTPError
  \/ ConnectError
  \/ StartPool
  \/ \E w \in 1..MaxProc : WorkerTake(w)
  \/ \E w \in 1..MaxProc : WorkerRun(w)
  \/ MainNext
  \/ MainFinish
  \/ Interrupt
  \/ Exit

Spec == Init /\ [][Next]_vars

\* ------------------------------------- runs over one cache directory ---
\* the clock advances
Tick ==
  /\ now < MaxClock
  /\ now' = now + 1
  /\ UNCHANGED << probe, args, hosts, files, remote, pc, todo, dl, pre, ret, fresh,
                  poolVars, notice, error, exitStatus, run >>

\* the provider publishes another document; its Last-Modified is the HTTP
\* date of the publication
RemoteUpdate(f) ==
  /\ remote[f].body = FirstDoc(f)
  /\ remote' = [remote EXCEPT ![f] = [body |-> SecondDoc(f),
                                      lm |-> LastModified(now)]]
  /\ fresh' = [fresh EXCEPT ![f] = FALSE]
  /\ dl' = IF dl.fam = f THEN [dl EXCEPT !.stale = TRUE] ELSE dl
  /\ UNCHANGED << probe, args, hosts, files, now, pc, todo, pre, ret,
                  poolVars, notice, error, exitStatus, run >>

\* the download phase of this run is over (or an exception left main) and
\* the program is started again with other download options; what a run
\* does after its download phase changes neither the cache files nor the
\* remote documents
NextRun ==
  /\ \/ pc = "fetch" /\ dl.stage = "idle" /\ (args.skip \/ todo = << >>)
     \/ pc = "crashed"
  /\ run < MaxRuns
  /\ run' = run + 1
  /\ \E fo \in BOOLEAN, sk \in BOOLEAN :
       args' = [args EXCEPT !.force = fo, !.skip = sk]
  /\ pc' = "fetch"
  /\ todo' = << 4, 6 >>
  /\ dl' = Idle
  /\ pre' = [f \in Families |-> NoFile]
  /\ ret' = [f \in Families |-> "none"]
  /\ error' = ""
  /\ UNCHANGED << probe, hosts, files, remote, now, fresh, poolVars, notice,
                  exitStatus >>

\* the first run finds no cache directory
FetchInit ==
  /\ args \in [proc : {1}, force : BOOLEAN, skip : BOOLEAN]
  /\ hosts = << "b.example" >>
  /\ files = [f \in Families |-> NoFile]
  /\ remote = [f \in Families |->
                 [body |-> FirstDoc(f), lm |-> 0]]
  /\ now = 0
  /\ fresh = [f \in Families |-> FALSE]
  /\ run = 1
  /\ RunStart

FetchNext ==
  \/ DownloadCall
  \/ Respond200
  \/ CopyChunk
  \/ DownloadReturn
  \/ TransferError
  \/ Respond304
  \/ RespondHTTPError
  \/ ConnectError
  \/ Tick
  \/ \E f \in Families : RemoteUpdate(f)
  \/ NextRun

FetchSpec == FetchInit /\ [][FetchNext]_vars

\* ------------------------------- one lookup in one list of subnets ----
\* the networks ip_net accepts: every IPv4 network, and the IPv6 networks
\* of the shortest prefixes (their numbers are those of IPv4 networks)
Networks ==
  {ip_net(f, strip(Line(Cidr(f, k, plen)))) :
     f \in {4}, plen \in 0..W4, k \in 0..(Pow2(W4) - 1)}
  \cup {ip_net(f, strip(Line(Cidr(f, k, plen)))) :
          f \in {6}, plen \in 0..2, k \in 0..3}
ValidNetworks ==
  {n \in Networks : IsNetwork(n.fam, [pad |-> FALSE, txt |-> n])}

Reverse(seq) == [i \in 1..Len(seq) |-> seq[Len(seq) + 1 - i]]
Drop(seq, i) == [j \in 1..(Len(seq) - 1) |-> IF j < i THEN seq[j] ELSE seq[j + 1]]

\* the cache directory and the options do not matter to the lookup
IndexInit ==
  /\ args = [proc |-> 1, force |-> FALSE, skip |-> TRUE]
  /\ hosts = << >>
  /\ files = [f \in Families |-> NoFile]
  /\ remote = [f \in Families |-> [body |-> FirstDoc(f), lm |-> 0]]
  /\ now = 0
  /\ fresh = [f \in Families |-> FALSE]
  /\ run = 1
  /\ pc = "fetch"
  /\ todo = << 4, 6 >>
  /\ dl = Idle
  /\ pre = [f \in Families |-> NoFile]
  /\ ret = [f \in Families |-> "none"]
  /\ worker = << >>
  /\ nextTask = 1
  /\ outq = << >>
  /\ consumed = << >>
  /\ stdout = << >>
  /\ notice = "none"
  /\ error = ""
  /\ exitStatus = -1
  /\ \E ns \in SeqsUpTo(ValidNetworks, MaxBlocks), a \in 0..(Pow2(W4) - 1) :
       probe = [NoProbe EXCEPT !.subnets = ns, !.ip = a]

\* lines 145-155 applied to the list, to the list in reverse order and to
\* the list without each one of its subnets
Lookup ==
  /\ ~probe.done
  /\ probe' = [probe EXCEPT
       !.done = TRUE,
       !.ret = InSubnets(probe.subnets, probe.ip),
       !.retReversed = InSubnets(Reverse(probe.subnets), probe.ip),
       !.retDropped = [i \in 1..Len(probe.subnets) |->
                         InSubnets(Drop(probe.subnets, i), probe.ip)]]
  /\ UNCHANGED << args, hosts, fetchVars, poolVars, pc, notice, error,
                  exitStatus, run >>

IndexNext == Lookup

IndexSpec == IndexInit /\ [][IndexNext]_vars

\* main goes on from the notice or the exception to the end of the with
\* block and to sys.exit
LiveInit ==
  /\ Init
  /\ files[4] \in {NoFile, File(DocV4, Recent)}
  /\ files[6] \in {NoFile, File(DocV6, Recent)}
LiveSpec == LiveInit /\ [][Next]_vars /\ WF_vars(Exit)

\* ------------------------------------------------------- properties ----
CountIn(seq, x) == Cardinality({i \in 1..Len(seq) : seq[i] = x})
IsPrefix(s, t) == Len(s) <= Len(t) /\ \A i \in 1..Len(s) : s[i] = t[i]

\* the item check_host returns for a host classified alone
ItemOf(h) ==
  LET r == check_host(h, NoMemo, files)
  IN  [host |-> r.host, exc |-> r.exc, checked |-> r.checked, diag |-> r.diag]

Produced == outq \o consumed
PoolStarted == worker # << >>
CacheGood == \A f \in Families : FileError(files, f) = ""
Malformed ==
  \E f \in Families : \E i \in 1..Len(StrippedLines(files[f].body)) :
    ~IsNetwork(f, StrippedLines(files[f].body)[i])
Degraded ==
  \A f \in Families : ~files[f].exists \/ StrippedLines(files[f].body) = << >>

\* C1: only hosts of the input classified NotFronted are printed, and at
\* the Finished notice each of them has been printed once per occurrence
C1_Claim ==
  /\ \A i \in 1..Len(stdout) :
       /\ \E j \in 1..Len(hosts) : hosts[j] = stdout[i]
       /\ Verdict(ItemOf(stdout[i])) = "NotFronted"
  /\ notice = "Finished" =>
       \A j \in 1..Len(hosts) :
         Verdict(ItemOf(hosts[j])) = "NotFronted" =>
           CountIn(stdout, hosts[j]) = CountIn(hosts, hosts[j])

\* C2: a host whose DNS lookup fails is Unresolved, is never printed, and
\* does not abort the batch: a run that started its pool over well-formed
\* cache files and was not interrupted ends with the Finished notice and
\* one verdict for every host
C2_Claim ==
  \A j \in 1..Len(hosts) :
    getaddrinfo(hosts[j]).err =>
      /\ Verdict(ItemOf(hosts[j])) = "Unresolved"
      /\ CountIn(stdout, hosts[j]) = 0
      /\ (pc = "exited" /\ PoolStarted /\ CacheGood /\ notice # "Interrupted") =>
           /\ notice = "Finished"
           /\ Len(consumed) = Len(hosts)
           /\ \A i \in 1..Len(consumed) : consumed[i].exc = ""

\* C3: no download_file call raises for a failed request
C3_Claim ==
  \A f \in Families : ~(ret[f] = "Raised" /\ error = "AttributeError")

\* C4: a download_file call that did not end in a successful download
\* left the cache file as it was before the call
C4_Claim ==
  \A f \in Families :
    ret[f] \in {"NotModified", "Failed", "Raised"} => files[f] = pre[f]

\* C5: an unforced request for a document downloaded completely and not
\* changed since carries a date the server answers with 304, and the call
\* ends without a download and leaves the file as it is
C5_Call == dl.stage = "sent" /\ ~args.force /\ fresh[dl.fam]
C5_Thm ==
  /\ [](C5_Call => dl.ims # NoHeader /\ remote[dl.fam].lm <= dl.ims)
  /\ [][(C5_Call /\ fresh'[dl.fam]) =>
          /\ files' = files
          /\ dl'.stage \in {"sent", "idle"}
          /\ ret'[dl.fam] \in {ret[dl.fam], "NotModified", "Failed", "Raised"}
          /\ (dl'.stage = "idle" /\ pc' = "fetch" /\ ret'[dl.fam] # "Failed")
               => ret'[dl.fam] = "NotModified"]_vars
C5_Witness ==
  /\ run = MaxRuns /\ ~args.force
  /\ \A f \in Families : ret[f] = "NotModified" /\ fresh[f]
                         /\ files[f].body = remote[f].body

\* C6: with both cache files empty or absent, every host whose IPv4
\* address resolves is classified NotFronted and the run does not crash
C6_Claim ==
  (PoolStarted /\ Degraded) =>
    /\ \A i \in 1..Len(Produced) :
         get_ip4(Produced[i].host).exc = "" =>
           Verdict(Produced[i]) = "NotFronted"
    /\ error # "FileNotFoundError"

\* C7: a run over well-formed cache files that reaches the Finished notice
\* has produced exactly the items of its hosts classified alone, each as
\* often as the host occurs, whatever the number of workers
C7_Claim ==
  (notice = "Finished" /\ CacheGood) =>
    /\ Len(consumed) = Len(hosts)
    /\ \A j \in 1..Len(hosts) :
         CountIn(consumed, ItemOf(hosts[j])) = CountIn(hosts, hosts[j])

\* C8: a run interrupted while the pool drains exits with a status other
\* than 0, the status of a run that reaches Finished
C8_Claim ==
  (pc = "exited" /\ notice = "Interrupted") => exitStatus # 0

\* C9: after the interrupt notice the program exits, whatever is queued
\* or in flight; what was printed stays printed and nothing is printed
\* after the notice
C9_Thm ==
  /\ (notice = "Interrupted") ~> (pc = "exited")
  /\ [][IsPrefix(stdout, stdout')]_vars
  /\ [][notice = "Interrupted" => stdout' = stdout]_vars
C9_Witness ==
  /\ pc = "exited" /\ notice = "Interrupted" /\ exitStatus # -1
  /\ stdout # << >>
  /\ Len(Produced) < Len(hosts)
  /\ \A w \in DOMAIN worker : worker[w].st = "dead"

\* C10 (as stated): a malformed line in a cache file aborts the run
C10_Claim ==
  (/\ Malformed /\ PoolStarted /\ pc = "exited" /\ notice # "Interrupted"
   /\ \A j \in 1..Len(hosts) : get_ip4(hosts[j]).exc # "StopIteration")
    => error # ""

\* C10 (amended): with a malformed line in a cache file no worker ever
\* builds the list of subnets, every classification of a host whose
\* address resolved raises, nothing is Fronted, NotFronted or printed, and
\* main is aborted by the first such exception it receives
BuildErrors == {"ValueError", "FileNotFoundError"}
C10_Thm ==
  (Malformed /\ PoolStarted) =>
    /\ stdout = << >>
    /\ \A w \in DOMAIN worker : ~worker[w].memo.built
    /\ \A i \in 1..Len(Produced) :
         /\ Verdict(Produced[i]) \notin {"Fronted", "NotFronted"}
         /\ get_ip4(Produced[i].host).exc = "" =>
              Produced[i].exc \in BuildErrors
    /\ \A i \in 1..Len(consumed) :
         consumed[i].exc \in BuildErrors =>
           /\ i = Len(consumed)
           /\ pc \in {"crashed", "exited"}
           /\ notice = "none"
           /\ error = consumed[i].exc
           /\ exitStatus \in {-1, 1}
C10_Witness ==
  /\ Malformed /\ pc = "exited" /\ exitStatus = 1
  /\ consumed # << >> /\ consumed[Len(consumed)].exc = "ValueError"
  /\ \E i \in 1..Len(consumed) : Verdict(consumed[i]) = "Unresolved"

\* C11: the lookup is true iff some IPv4 subnet of the list holds the
\* address by network arithmetic (the address without its host bits is the
\* base, i.e. the address lies in the range of the prefix); IPv6 subnets
\* never match; the order of the list does not matter; without the only
\* subnet that holds the address the lookup is false
HostPart(n, ip) == ip % Pow2(W4 - n.plen)
Holds(n, ip) ==
  /\ n.fam = 4
  /\ ip - HostPart(n, ip) = n.base
  /\ n.base <= ip /\ ip < n.base + Pow2(W4 - n.plen)
C11_Thm ==
  probe.done =>
    LET ns == probe.subnets
        holders == {i \in 1..Len(ns) : Holds(ns[i], probe.ip)}
    IN  /\ probe.ret = (holders # {})
        /\ (\A i \in 1..Len(ns) : ns[i].fam = 6) => ~probe.ret
        /\ probe.retReversed = probe.ret
        /\ \A i \in 1..Len(ns) :
             /\ holders = {i} => (probe.ret /\ ~probe.retDropped[i])
             /\ ns[i].fam = 6 => probe.retDropped[i] = probe.ret
C11_Witness ==
  /\ probe.done /\ probe.ret
  /\ \E i, j \in 1..Len(probe.subnets) :
       /\ probe.subnets[i].fam = 6 /\ probe.subnets[j].fam = 4
       /\ Contains_anyfam(probe.subnets[i], probe.ip)
       /\ ~probe.retDropped[j]

\* C12: without -S both URLs are fetched, ips-v4 first and ips-v6 whatever
\* the first fetch gave; with -S no request is made
C12_Claim ==
  /\ args.skip => (dl = Idle /\ \A f \in Families : ret[f] = "none")
  /\ ret[6] # "none" => ret[4] # "none"
  /\ (~args.skip /\ pc # "fetch") => \A f \in Families : ret[f] # "none"

\* C13: a host whose resolution succeeds without an IPv4 entry is
\* Unresolved
C13_Claim ==
  \A i \in 1..Len(Produced) :
    (/\ ~getaddrinfo(Produced[i].host).err
     /\ SelectSeq(getaddrinfo(Produced[i].host).res, IsInet) = << >>)
      => Verdict(Produced[i]) = "Unresolved"

\* C14: outside a transfer in progress a cache file is absent or holds one
\* complete document the server has served, and a file that got the
\* answer 304 is complete
ServedDocs(f) == {FirstDoc(f), SecondDoc(f)}
C14_Claim ==
  \A f \in Families :
    /\ (files[f].exists /\ ~(dl.fam = f /\ dl.stage = "body"))
         => files[f].body \in ServedDocs(f)
    /\ ret[f] = "NotModified" => files[f].body \in ServedDocs(f)

\* C15: the request carries If-Modified-Since, with the date of the
\* file's st_mtime, iff force is false and the file exists when the call
\* begins; an unconditional request is never answered 304, and a call that
\* returns True has replaced the file by the document served
C15_Thm ==
  /\ dl.stage = "sent" =>
       /\ (dl.ims # NoHeader) = (~args.force /\ pre[dl.fam].exists)
       /\ dl.ims # NoHeader => dl.ims = pre[dl.fam].mtime \div TicksPerSec
  /\ \A f \in Families :
       /\ (args.force \/ ~pre[f].exists) => ret[f] # "NotModified"
       /\ ret[f] = "Updated" => (files[f].exists /\ files[f].body = remote[f].body)
C15_Witness ==
  /\ args.force /\ pre[4].exists /\ pre[4].body # remote[4].body
  /\ ret[4] = "Updated" /\ files[4].body = remote[4].body
  /\ ret[6] = "Updated"

\* C16 (as stated): a worker reads and parses the cache files at most once
C16_Claim ==
  (\A f \in Families : files[f].exists) =>
    \A w \in DOMAIN worker : worker[w].reads <= 1

\* C16 (amended): a worker builds the list of subnets at most once, by
\* its first reading of the cache files; the memo, once set, is the list
\* of the cache files of the run and never changes, so all workers test
\* against the same list; only a reading that raised is repeated
C16_Thm ==
  /\ [](\A w \in DOMAIN worker :
         /\ worker[w].builds <= 1
         /\ worker[w].memo.built =>
              /\ worker[w].builds = 1 /\ worker[w].reads = 1
              /\ get_cloudflare_subnets(files).exc = ""
              /\ worker[w].memo.rv = get_cloudflare_subnets(files).rv
         /\ ~worker[w].memo.built => worker[w].builds = 0)
  /\ [][\A w \in DOMAIN worker :
          worker[w].memo.built =>
            (w \in DOMAIN worker' /\ worker'[w].memo = worker[w].memo)]_vars
C16_Witness ==
  /\ Len(worker) = 1 /\ worker[1].memo.built /\ worker[1].builds = 1
  /\ Len(Produced) = 2
  /\ \A i \in 1..2 : Verdict(Produced[i]) \in {"Fronted", "NotFronted"}
  /\ \E i \in 1..2 : Verdict(Produced[i]) = "Fronted"

\* C17: the pool exists only after the download phase is over (both
\* download_file calls have returned, or -S), no worker exists while a
\* download is possible, and no cache file changes once the pool exists
C17_Thm ==
  /\ [](PoolStarted =>
         /\ dl = Idle
         /\ args.skip \/ todo = << >>
         /\ \A f \in Families :
              ret[f] \in (IF args.skip THEN {"none"}
                          ELSE {"Updated", "NotModified", "Failed"}))
  /\ [](pc = "fetch" => (worker = << >> /\ outq = << >>))
  /\ [][PoolStarted => files' = files]_vars
C17_Witness ==
  /\ ret[4] = "NotModified" /\ ret[6] = "Updated"
  /\ \E w \in DOMAIN worker :
       /\ worker[w].memo.built
       /\ worker[w].memo.rv = FileNets(files, 4) \o FileNets(files, 6)
       /\ Len(worker[w].memo.rv) > Len(FileNets(files, 4))

\* C18: the pool is created with as many workers as the smaller of --proc
\* and the number of hosts: never more than either, and equal to one of
\* them; Pool refuses the number 0 of an empty host list
C18_Thm ==
  /\ PoolStarted =>
       /\ Len(worker) <= args.proc /\ Len(worker) <= Len(hosts)
       /\ Len(worker) \in {args.proc, Len(hosts)}
  /\ (~PoolStarted /\ error = "ValueError") => Len(hosts) = 0
C18_Witness ==
  /\ PoolStarted /\ Len(worker) = Len(hosts) /\ Len(hosts) < args.proc

\* C19: a run over an empty host list ends normally with the Finished
\* notice and nothing printed
C19_Claim ==
  (/\ Len(hosts) = 0 /\ pc = "exited"
   /\ \A f \in Families : ret[f] # "Raised")
    => (notice = "Finished" /\ error = "" /\ exitStatus = 0 /\ stdout = << >>)

\* C20: the list handed to the pool holds no empty string, and no empty
\* string is classified
C20_Claim ==
  PoolStarted =>
    /\ \A j \in 1..Len(hosts) : hosts[j] # ""
    /\ \A i \in 1..Len(Produced) : Produced[i].host # ""

TypeOK ==
  /\ pc \in {"fetch", "drain", "finished", "interrupted", "crashed", "exited"}
  /\ Len(hosts) <= MaxHosts
  /\ exitStatus \in {-1, 0, 1}
====
